---- MODULE Spec2Model ----
(***************************************************************************)
(* A model of the travel_app repository: the Itinerary Composer            *)
(* (src/itinerary.py), the Flight Offer Ranking & Summarization Engine     *)
(* (src/flight_utils.py), the flight search that renders its summary       *)
(* (src/smart_flight_utils.py) and the session store of the HTTP handler   *)
(* (src/app.py).                                                           *)
(*                                                                         *)
(* Python's None is modelled as the empty tuple and a present value v as   *)
(* the one-element tuple <<v>>, so that optional values of any type can be *)
(* compared.                                                               *)
(***************************************************************************)
EXTENDS Integers, Sequences, FiniteSets, TLC

VARIABLES
    \* ---- build_itinerary (src/itinerary.py) ----
    pc,                \* position of the current call
    cities,            \* list of requested cities
    days,              \* parsed day count (None when the query names none)
    preferences,       \* preference list of the request
    start_date,        \* normalized start date (None or a day ordinal)
    city_day_counts,   \* DaySplit: city -> days
    idx,               \* 0-based index of the city being filled
    i,                 \* 0-based local day within the city
    day_counter,       \* global day counter
    city_attractions,  \* shuffled, preference-filtered attraction pool of the city
    city_hotels,       \* shuffled hotel pool of the city
    city_restaurants,  \* shuffled restaurant pool of the city
    current_hotel,     \* hotel remembered on the first local day
    used_attractions,  \* names already picked in the city
    itinerary,         \* "Day k" -> day record
    parsed,            \* the parsed dict returned with the itinerary
    picks,             \* history: per local day of the city, what each slot picked
    \* ---- summarize_skyexperts (src/flight_utils.py) ----
    flights_data,      \* list of raw offers of the API response
    summary,           \* the returned summary (None before the call)
    \* ---- run_smart_flight_search (src/smart_flight_utils.py) ----
    has_return,        \* bool(retdate) of the search request
    mindtrip,          \* result of trip_output (None before the call)
    \* ---- parse_date_string (src/itinerary.py) ----
    natural_date,      \* the phrase, as its list of lower-case words
    base_date,         \* the reference date ("today"), a day ordinal
    parsed_date,       \* the returned date (None before the call and for "no date")
    fallback,          \* which fallback parser decided the result, if any
    \* ---- filter_by_preferences (src/itinerary.py) ----
    raw_pool,          \* the pool handed to filter_by_preferences
    \* ---- get_session, query_handler (src/app.py) ----
    sessions,          \* the session store: id -> session dict
    now,               \* time.time() of the latest get_session call, in seconds
    request,           \* the request being handled: client session id and query
    session_id,        \* the id get_session returned (None between requests)
    before,            \* history: the store when get_session was called
    response,          \* the response of the latest request
    requests_made      \* history: number of requests received

vars == <<pc, cities, days, preferences, start_date, city_day_counts, idx, i,
          day_counter, city_attractions, city_hotels, city_restaurants,
          current_hotel, used_attractions, itinerary, parsed, picks,
          flights_data, summary, has_return, mindtrip,
          natural_date, base_date, parsed_date, fallback, raw_pool,
          sessions, now, request, session_id, before, response, requests_made>>

itinVars == <<cities, days, preferences, start_date, city_day_counts, idx, i,
              day_counter, city_attractions, city_hotels, city_restaurants,
              current_hotel, used_attractions, itinerary, parsed, picks>>

flightVars == <<flights_data, summary, has_return, mindtrip>>

dateVars == <<natural_date, base_date, parsed_date, fallback>>

sessionVars == <<sessions, now, request, session_id, before, response, requests_made>>

None == <<>>

Some(v) == <<v>>

\* ---------------------------------------------------------------------
\* Bounds of the model
\* ---------------------------------------------------------------------
MaxSplitCities == 3

MaxTotalDays == 8

MaxDays == 4

MaxPool == 4

\* ---------------------------------------------------------------------
\* Helpers over sequences
\* ---------------------------------------------------------------------
Range(s) == {s[k] : k \in DOMAIN s}

RECURSIVE SumOver(_, _)
SumOver(f, S) ==
    IF S = {} THEN 0
    ELSE LET x == CHOOSE y \in S : TRUE IN f[x] + SumOver(f, S \ {x})

\* ---------------------------------------------------------------------
\* Request parsing (build_itinerary, the part before the split)
\* ---------------------------------------------------------------------
\* The first cities of known_cities, in its order.
known_cities == <<"Dubai", "Abu Dhabi", "Sharjah", "Ajman">>

\* cities = [c for c in known_cities if c.lower() in query.lower()],
\* defaulting to ["Dubai"]; mentioned is the set of cities the query names.
RequestedCities(mentioned) ==
    LET found == SelectSeq(known_cities, LAMBDA c : c \in mentioned)
    IN IF found = <<>> THEN <<"Dubai">> ELSE found

\* ---------------------------------------------------------------------
\* split_days_among_cities
\* ---------------------------------------------------------------------
RECURSIVE SplitLoop(_, _, _, _)
SplitLoop(counts, cs, remaining_days, k) ==
    IF remaining_days > 0
    THEN SplitLoop([counts EXCEPT ![cs[(k % Len(cs)) + 1]] = @ + 1],
                   cs, remaining_days - 1, k + 1)
    ELSE counts

\* split_days_among_cities with the round-robin started at the second city.
split_days_from_second_city(cs, total_days) ==
    LET n == Len(cs)
        min_days == IF total_days >= n * 2 THEN 2 ELSE 1
        init == [c \in Range(cs) |-> min_days]
    IN SplitLoop(init, cs, total_days - (min_days * n), 1)

split_days_among_cities(cs, total_days) ==
    LET n == Len(cs)
        min_days == IF total_days >= n * 2 THEN 2 ELSE 1
        init == [c \in Range(cs) |-> min_days]
    IN SplitLoop(init, cs, total_days - (min_days * n), 0)

\* ---------------------------------------------------------------------
\* Category keyword tables
\* ---------------------------------------------------------------------
\* The attraction categories of the model catalog.
Categories == {"Museum", "Shopping Mall", "Desert Safari"}

\* The keywords of preference_map and time_based_map that occur in a
\* category string (str.contains, case-insensitive substring match).
KeywordsIn(category) ==
    CASE category = "Museum" -> {"Museum"}
      [] category = "Shopping Mall" -> {"Shopping", "Mall"}
      [] category = "Desert Safari" -> {"Desert", "Safari"}
      [] category = "Beach" -> {"Beach"}
      [] category = "Heritage Site" -> {"Heritage"}
      [] category = "Gold Souq" -> {"Souq"}
      [] OTHER -> {}

Slots == <<"Morning", "Afternoon", "Evening">>

time_based_map(slot) ==
    CASE slot = "Morning" ->
           <<"Museum", "Heritage", "Cultural", "Religious", "Theme Park", "Nature", "Zoo">>
      [] slot = "Afternoon" ->
           <<"Shopping", "Mall", "Souq", "Market", "Aquarium", "Art", "Exhibition">>
      [] slot = "Evening" ->
           <<"Desert", "Safari", "Adventure", "Nightlife", "Show", "Observation",
             "Fountain", "Water Park">>
      [] OTHER -> <<>>

\* preference_map.get(pref.lower(), []) for the capitalized preference words
\* of the model; a category name given as a preference ("Museum") is no key
\* of preference_map.
preference_map_get(pref) ==
    CASE pref = "Beach" -> <<"Beach", "Water Park", "Island", "Waterway">>
      [] pref = "Culture" -> <<"Heritage", "Cultural", "Museum", "Religious", "Memorial">>
      [] pref = "Shopping" -> <<"Shopping", "Mall", "Souq", "Market">>
      [] OTHER -> <<>>

\* ---------------------------------------------------------------------
\* filter_by_preferences
\* ---------------------------------------------------------------------
\* Positions of the rows of pool whose Category contains cat, in pool order.
MatchIndex(pool, cat) ==
    SelectSeq([k \in 1..Len(pool) |-> k],
              LAMBDA k : cat \in KeywordsIn(pool[k].Category))

RECURSIVE MatchedOverCats(_, _)
MatchedOverCats(pool, cats) ==
    IF cats = <<>> THEN <<>>
    ELSE MatchIndex(pool, Head(cats)) \o MatchedOverCats(pool, Tail(cats))

\* The index of the frame "matched": one block per preference and mapped
\* category, in that order.
RECURSIVE MatchedIndex(_, _)
MatchedIndex(pool, prefs) ==
    IF prefs = <<>> THEN <<>>
    ELSE MatchedOverCats(pool, preference_map_get(Head(prefs)))
         \o MatchedIndex(pool, Tail(prefs))

\* DataFrame.drop_duplicates(): keeps the first of equal rows.
RECURSIVE DropDuplicates(_)
DropDuplicates(rows) ==
    IF rows = <<>> THEN <<>>
    ELSE LET front == DropDuplicates(SubSeq(rows, 1, Len(rows) - 1))
             last == rows[Len(rows)]
         IN IF last \in Range(front) THEN front ELSE Append(front, last)

filter_by_preferences(pool, prefs) ==
    IF prefs = <<>> THEN pool
    ELSE LET matched == MatchedIndex(pool, prefs)
             non_pref == SelectSeq([k \in 1..Len(pool) |-> k],
                                   LAMBDA k : k \notin Range(matched))
             order == matched \o non_pref
         IN IF matched # <<>>
            THEN DropDuplicates([k \in 1..Len(order) |-> pool[order[k]]])
            ELSE pool

\* ---------------------------------------------------------------------
\* pick_time_based_attraction
\* ---------------------------------------------------------------------
SlotMatches(category, slot) ==
    \E k \in DOMAIN time_based_map(slot) : time_based_map(slot)[k] \in KeywordsIn(category)

\* pick_time_based_attraction whose fallback does not exclude used names.
pick_with_unfiltered_fallback(pool, used, slot) ==
    LET candidates == SelectSeq(pool, LAMBDA a : SlotMatches(a.Category, slot)
                                                 /\ a.Name \notin used)
    IN IF candidates # <<>> THEN Some(candidates[1])
       ELSE IF pool # <<>> THEN Some(pool[1])
       ELSE None

pick_time_based_attraction(pool, used, slot) ==
    LET candidates == SelectSeq(pool, LAMBDA a : SlotMatches(a.Category, slot)
                                                 /\ a.Name \notin used)
        unused == SelectSeq(pool, LAMBDA a : a.Name \notin used)
    IN IF candidates # <<>> THEN Some(candidates[1])
       ELSE IF unused # <<>> THEN Some(unused[1])
       ELSE None

\* The used set after a pick (used_attractions.add when the pick is not None).
AddUsed(used, pick) == IF pick # None THEN used \cup {pick[1].Name} ELSE used

\* ---------------------------------------------------------------------
\* build_itinerary
\* ---------------------------------------------------------------------
\* Preference lists of the model requests (after capitalize()).
PreferenceLists == {<<>>, <<"Shopping">>}

\* Day ordinal of the start date of the model requests.
StartDay == 0

\* The cities the queries of the model requests may name.
RequestCityNames == {"Dubai", "Abu Dhabi"}

\* The categories the catalog rows of a city may carry: the catalog of the
\* first known city is varied, the catalogs of the other cities hold museums.
CatalogCategories(city) == IF city = known_cities[1] THEN Categories ELSE {"Museum"}

\* The shuffled catalog pools of a city: up to MaxPool rows, named by their
\* position in the shuffled order.
AttractionPools(city) ==
    UNION {{[k \in 1..n |-> [Name |-> k, Category |-> f[k]]]
              : f \in [1..n -> CatalogCategories(city)]}
           : n \in 0..MaxPool}

\* A pool of n hotels or restaurants, named by their position.
PoolOf(n) == [k \in 1..n |-> k]

\* The shuffled hotel and restaurant pools of a city: no hotel or two, no
\* restaurant or one.
HotelPools == {PoolOf(0), PoolOf(2)}

RestaurantPools == {PoolOf(0), PoolOf(1)}

\* Row i % len of a pool, None when the pool is empty.
RowOfDay(pool, day) == IF pool # <<>> THEN Some(pool[(day % Len(pool)) + 1]) ELSE None

\* morning['Name'] is evaluated in the two branches that show the morning
\* attraction; with morning = None that raises TypeError.
MorningRaises(day, city_index, morning) ==
    morning = None /\ ~(day = 0 /\ city_index > 0)

\* The morning text: the template, the city it names ("Travel to {city}")
\* and the attraction it shows.
MorningText(day, city_index, city, morning) ==
    IF day = 0 /\ city_index > 0
    THEN [kind |-> "travel", city |-> Some(city), shows |-> None]
    ELSE IF day = 0 /\ city_index = 0
         THEN [kind |-> "checkin_visit", city |-> None, shows |-> Some(morning[1].Name)]
         ELSE [kind |-> "visit", city |-> None, shows |-> Some(morning[1].Name)]

AfternoonText(afternoon) ==
    IF afternoon = None THEN [kind |-> "No afternoon activity", shows |-> None]
    ELSE [kind |-> "visit", shows |-> Some(afternoon[1].Name)]

\* "{evening_activity}\nDinner: {dinner_text}" or "Dinner: {dinner_text}";
\* dinner None stands for "No restaurants available".
EveningText(evening_pick, restaurant) ==
    [shows |-> IF evening_pick # None THEN Some(evening_pick[1].Name) ELSE None,
     dinner |-> restaurant]

FirstDayHotelText(hotel) ==
    IF hotel = None THEN [kind |-> "No hotels available", hotel |-> None]
    ELSE [kind |-> "named", hotel |-> hotel]

\* The later-day Hotel text that never reports a missing hotel.
LaterDayHotelTextAlwaysSame(current) ==
    [kind |-> "Same hotel as previous day", hotel |-> None]

LaterDayHotelText(current) ==
    IF current # None THEN [kind |-> "Same hotel as previous day", hotel |-> None]
    ELSE [kind |-> "No hotels available", hotel |-> None]

\* The Date field with the calendar date one day late.
DateFieldFromCounter(start, counter) ==
    IF start # None THEN [kind |-> "date", value |-> start[1] + counter]
    ELSE [kind |-> "label", value |-> counter]

DateField(start, counter) ==
    IF start # None THEN [kind |-> "date", value |-> start[1] + (counter - 1)]
    ELSE [kind |-> "label", value |-> counter]

InitFlightsIdle ==
    /\ flights_data = <<>>
    /\ summary = None
    /\ has_return = FALSE
    /\ mindtrip = None

InitDatesIdle ==
    /\ natural_date = <<>>
    /\ base_date = 0
    /\ parsed_date = None
    /\ fallback = "unused"

InitFilterIdle == raw_pool = <<>>

NoRequest == [session_id |-> None, query |-> ""]

NoResponse == [route |-> "none", session_id |-> None, itinerary |-> <<>>]

InitSessionsIdle ==
    /\ sessions = <<>>
    /\ now = 0
    /\ request = NoRequest
    /\ session_id = None
    /\ before = <<>>
    /\ response = NoResponse
    /\ requests_made = 0

InitLocals ==
    /\ pc = "parsed"
    /\ city_day_counts = <<>>
    /\ idx = 0
    /\ i = 0
    /\ day_counter = 1
    /\ city_attractions = <<>>
    /\ city_hotels = <<>>
    /\ city_restaurants = <<>>
    /\ current_hotel = None
    /\ used_attractions = {}
    /\ itinerary = <<>>
    /\ parsed = None
    /\ picks = <<>>

\* The request as parsed from the query: lines 212-247.
InitBuild ==
    /\ \E mentioned \in SUBSET RequestCityNames :
          cities = RequestedCities(mentioned)
    /\ days \in {None} \cup {Some(d) : d \in 0..MaxDays}
    /\ preferences \in PreferenceLists
    /\ start_date \in {None, Some(StartDay)}
    /\ InitLocals
    /\ InitFlightsIdle
    /\ InitDatesIdle
    /\ InitFilterIdle
    /\ InitSessionsIdle

\* city_day_counts = split_days_among_cities(cities, days); with days = None
\* the comparison total_days >= n * 2 raises TypeError.
SplitDays ==
    /\ pc = "parsed"
    /\ IF days = None
       THEN /\ pc' = "raised"
            /\ UNCHANGED <<city_day_counts, itinerary, day_counter, idx>>
       ELSE /\ city_day_counts' = split_days_among_cities(cities, days[1])
            /\ itinerary' = <<>>
            /\ day_counter' = 1
            /\ idx' = 0
            /\ pc' = "city"
    /\ UNCHANGED <<cities, days, preferences, start_date, i, city_attractions,
                   city_hotels, city_restaurants, current_hotel, used_attractions,
                   parsed, picks>>
    /\ UNCHANGED flightVars
    /\ UNCHANGED dateVars
    /\ UNCHANGED raw_pool
    /\ UNCHANGED sessionVars

\* Head of the loop over cities: read, shuffle and filter the city's pools.
EnterCity ==
    /\ pc = "city"
    /\ idx < Len(cities)
    /\ \E raw \in AttractionPools(cities[idx + 1]) :
          city_attractions' = filter_by_preferences(raw, preferences)
    /\ city_hotels' \in HotelPools
    /\ city_restaurants' \in RestaurantPools
    /\ current_hotel' = None
    /\ used_attractions' = {}
    /\ picks' = <<>>
    /\ i' = 0
    /\ pc' = "day"
    /\ UNCHANGED <<cities, days, preferences, start_date, city_day_counts, idx,
                   day_counter, itinerary, parsed>>
    /\ UNCHANGED flightVars
    /\ UNCHANGED dateVars
    /\ UNCHANGED raw_pool
    /\ UNCHANGED sessionVars

\* One iteration of the loop over the city's days.
BuildDay ==
    /\ pc = "day"
    /\ LET city == cities[idx + 1]
           morning == pick_time_based_attraction(city_attractions, used_attractions, "Morning")
           used1 == AddUsed(used_attractions, morning)
           afternoon == pick_time_based_attraction(city_attractions, used1, "Afternoon")
           used2 == AddUsed(used1, afternoon)
           evening_pick == pick_time_based_attraction(city_attractions, used2, "Evening")
           used3 == AddUsed(used2, evening_pick)
           restaurant == RowOfDay(city_restaurants, i)
           hotel == RowOfDay(city_hotels, i)
           last_day == i + 1 >= city_day_counts[city]
       IN /\ used_attractions' = used3
          /\ picks' = Append(picks, [Morning |-> morning, Afternoon |-> afternoon,
                                     Evening |-> evening_pick])
          /\ IF MorningRaises(i, idx, morning)
             THEN /\ pc' = "raised"
                  /\ UNCHANGED <<current_hotel, itinerary, day_counter, i, idx>>
             ELSE /\ current_hotel' = IF i = 0 THEN hotel ELSE current_hotel
                  /\ itinerary' =
                        [k \in (DOMAIN itinerary) \cup {day_counter} |->
                           IF k = day_counter
                           THEN [Date |-> DateField(start_date, day_counter),
                                 Morning |-> MorningText(i, idx, city, morning),
                                 Afternoon |-> AfternoonText(afternoon),
                                 Evening |-> EveningText(evening_pick, restaurant),
                                 Hotel |-> IF i = 0 THEN FirstDayHotelText(hotel)
                                           ELSE LaterDayHotelText(current_hotel)]
                           ELSE itinerary[k]]
                  /\ day_counter' = day_counter + 1
                  /\ i' = IF last_day THEN 0 ELSE i + 1
                  /\ idx' = IF last_day THEN idx + 1 ELSE idx
                  /\ pc' = IF ~last_day THEN "day"
                           ELSE IF idx + 1 < Len(cities) THEN "city" ELSE "return"
    /\ UNCHANGED <<cities, days, preferences, start_date, city_day_counts,
                   city_attractions, city_hotels, city_restaurants, parsed>>
    /\ UNCHANGED flightVars
    /\ UNCHANGED dateVars
    /\ UNCHANGED raw_pool
    /\ UNCHANGED sessionVars

\* Lines 318-329: the parsed dict returned with the itinerary.
Return ==
    /\ pc = "return"
    /\ parsed' = Some([city |-> cities[1], cities |-> cities, days |-> days,
                       preferences |-> preferences, day_split |-> city_day_counts,
                       start_date |-> start_date])
    /\ pc' = "done"
    /\ UNCHANGED <<cities, days, preferences, start_date, city_day_counts, idx, i,
                   day_counter, city_attractions, city_hotels, city_restaurants,
                   current_hotel, used_attractions, itinerary, picks>>
    /\ UNCHANGED flightVars
    /\ UNCHANGED dateVars
    /\ UNCHANGED raw_pool
    /\ UNCHANGED sessionVars

NextBuild == SplitDays \/ EnterCity \/ BuildDay \/ Return

SpecBuild == InitBuild /\ [][NextBuild]_vars

\* ---------------------------------------------------------------------
\* split_days_among_cities on its own, over a wider range of requests
\* ---------------------------------------------------------------------
InitSplit ==
    /\ \E mentioned \in SUBSET Range(known_cities) :
          /\ cities = RequestedCities(mentioned)
          /\ Len(cities) <= MaxSplitCities
    /\ days \in {None} \cup {Some(d) : d \in 0..MaxTotalDays}
    /\ preferences = <<>>
    /\ start_date = None
    /\ InitLocals
    /\ InitFlightsIdle
    /\ InitDatesIdle
    /\ InitFilterIdle
    /\ InitSessionsIdle

SpecSplit == InitSplit /\ [][SplitDays]_vars

\* ---------------------------------------------------------------------
\* summarize_skyexperts (src/flight_utils.py)
\* ---------------------------------------------------------------------
MaxOffers == 6

\* Raw total_price values, in tenths of a cent: whole amounts and one amount
\* that rounds down to a whole amount.
RawPrices == {1000, 1004, 2000}

\* totaltime values in minutes.
Durations == {45, 90}

\* A leg with its arrival airport code; a malformed leg has no "Arrival" key.
Leg(code) == [Arrival |-> Some(code)]

MalformedLeg == [Arrival |-> None]

Group(legs, minutes) == [flightlist |-> legs, totaltime |-> minutes]

OutboundGroups ==
    {Group(<<>>, 0), Group(<<Leg("XNB"), Leg("DXB")>>, 90)}
    \cup {Group(<<Leg("DXB")>>, t) : t \in Durations}

ReturnGroups ==
    {Group(<<>>, 0), Group(<<MalformedLeg>>, 45), Group(<<Leg("LHR")>>, 45),
     Group(<<Leg("XNB"), Leg("LHR")>>, 90)}

\* Raw offers: a price and one or two leg-groups.
RawOffers ==
    {[total_price |-> p, OutboundInboundlist |-> gs] :
        p \in RawPrices,
        gs \in {<<o>> : o \in OutboundGroups}
               \cup {<<o, r>> : o \in OutboundGroups, r \in ReturnGroups}}


\* f"{currency_sign}{price:.2f}" read back by float(...replace(currency_sign, "")):
\* the price rounded to cents (no model price lies halfway between two cents).
PriceToCents(raw) == (raw + 5) \div 10

\* f"{hours}h {mins}m" with hours, mins = divmod(duration_minutes, 60).
DurationStr(minutes) == <<minutes \div 60, minutes % 60>>

duration_to_minutes(dur) == dur[1] * 60 + dur[2]

\* parse_segment counting only the stops that are no bus transfer.
parse_segment_skipping_bus(f, segment_index) ==
    LET groups == f.OutboundInboundlist
        segments == IF Len(groups) > segment_index
                    THEN groups[segment_index + 1].flightlist ELSE <<>>
    IN IF segments = <<>> THEN None
       ELSE IF \E k \in DOMAIN segments : segments[k].Arrival = None THEN None
       ELSE Some([price |-> PriceToCents(f.total_price),
                  duration |-> DurationStr(groups[segment_index + 1].totaltime),
                  stops |-> Cardinality({k \in 1..(Len(segments) - 1) :
                                            segments[k].Arrival[1] # "XNB"}),
                  stops_detail |-> [k \in 1..(Len(segments) - 1) |->
                                      [code |-> segments[k].Arrival[1],
                                       bus_transfer |-> segments[k].Arrival[1] = "XNB"]],
                  arr_code |-> segments[Len(segments)].Arrival[1],
                  arr_bus_transfer |-> segments[Len(segments)].Arrival[1] = "XNB"])

\* parse_segment: the normalized offer of one leg-group, None when the group
\* is missing or empty, or when a leg lacks a key (the except branch).
parse_segment(f, segment_index) ==
    LET groups == f.OutboundInboundlist
        segments == IF Len(groups) > segment_index
                    THEN groups[segment_index + 1].flightlist ELSE <<>>
    IN IF segments = <<>> THEN None
       ELSE IF \E k \in DOMAIN segments : segments[k].Arrival = None THEN None
       ELSE Some([price |-> PriceToCents(f.total_price),
                  duration |-> DurationStr(groups[segment_index + 1].totaltime),
                  stops |-> IF Len(segments) - 1 > 0 THEN Len(segments) - 1 ELSE 0,
                  stops_detail |-> [k \in 1..(Len(segments) - 1) |->
                                      [code |-> segments[k].Arrival[1],
                                       bus_transfer |-> segments[k].Arrival[1] = "XNB"]],
                  arr_code |-> segments[Len(segments)].Arrival[1],
                  arr_bus_transfer |-> segments[Len(segments)].Arrival[1] = "XNB"])

\* An entry of the summary: a pair dict {"outbound", "return"} or a single
\* normalized outbound offer (return_seg None).
PairEntry(outbound_seg, return_seg) ==
    [kind |-> "pair", outbound |-> outbound_seg, return_seg |-> Some(return_seg)]

SingleEntry(outbound_seg) ==
    [kind |-> "single", outbound |-> outbound_seg, return_seg |-> None]

\* The loop that builds pairs (lines 320-327).
RECURSIVE BuildPairs(_)
BuildPairs(fs) ==
    IF fs = <<>> THEN <<>>
    ELSE LET f == Head(fs)
             outbound_seg == parse_segment(f, 0)
             return_seg == IF Len(f.OutboundInboundlist) > 1
                           THEN parse_segment(f, 1) ELSE None
         IN IF f.OutboundInboundlist # <<>> /\ outbound_seg # None /\ return_seg # None
            THEN <<PairEntry(outbound_seg[1], return_seg[1])>> \o BuildPairs(Tail(fs))
            ELSE BuildPairs(Tail(fs))

\* outbound_only (lines 361-362).
RECURSIVE BuildOutboundOnly(_)
BuildOutboundOnly(fs) ==
    IF fs = <<>> THEN <<>>
    ELSE LET f == Head(fs)
             outbound_seg == parse_segment(f, 0)
         IN IF f.OutboundInboundlist # <<>> /\ outbound_seg # None
            THEN <<SingleEntry(outbound_seg[1])>> \o BuildOutboundOnly(Tail(fs))
            ELSE BuildOutboundOnly(Tail(fs))

EntryPrice(e) == e.outbound.price

\* The fastest key: outbound + return minutes of a pair, outbound minutes of
\* a single offer.
EntryMinutes(e) ==
    duration_to_minutes(e.outbound.duration)
    + (IF e.kind = "pair" THEN duration_to_minutes(e.return_seg[1].duration) ELSE 0)

\* min(entries, key=price) taking the last of several minima.
MinByPriceLast(entries) ==
    LET best == CHOOSE k \in DOMAIN entries :
                   \A j \in DOMAIN entries :
                      \/ EntryPrice(entries[k]) < EntryPrice(entries[j])
                      \/ (EntryPrice(entries[k]) = EntryPrice(entries[j]) /\ k >= j)
    IN entries[best]

\* min(entries, key=price): the first entry of minimal price.
MinByPrice(entries) ==
    LET best == CHOOSE k \in DOMAIN entries :
                   \A j \in DOMAIN entries :
                      \/ EntryPrice(entries[k]) < EntryPrice(entries[j])
                      \/ (EntryPrice(entries[k]) = EntryPrice(entries[j]) /\ k <= j)
    IN entries[best]

\* min(entries, key=minutes): the first entry of minimal duration.
MinByMinutes(entries) ==
    LET best == CHOOSE k \in DOMAIN entries :
                   \A j \in DOMAIN entries :
                      \/ EntryMinutes(entries[k]) < EntryMinutes(entries[j])
                      \/ (EntryMinutes(entries[k]) = EntryMinutes(entries[j]) /\ k <= j)
    IN entries[best]

\* sorted(entries, key=price): stable, by insertion from the left.
RECURSIVE InsertByPrice(_, _)
InsertByPrice(sorted, e) ==
    IF sorted = <<>> THEN <<e>>
    ELSE IF EntryPrice(sorted[Len(sorted)]) <= EntryPrice(e) THEN Append(sorted, e)
    ELSE Append(InsertByPrice(SubSeq(sorted, 1, Len(sorted) - 1), e), sorted[Len(sorted)])

RECURSIVE SortedByPrice(_)
SortedByPrice(entries) ==
    IF entries = <<>> THEN <<>>
    ELSE InsertByPrice(SortedByPrice(SubSeq(entries, 1, Len(entries) - 1)),
                       entries[Len(entries)])

\* seq[:n]
Take(seq, n) == SubSeq(seq, 1, IF Len(seq) < n THEN Len(seq) ELSE n)

IsDirect(e) ==
    /\ e.outbound.stops = 0
    /\ e.kind = "pair" => e.return_seg[1].stops = 0

MinOf(S) == CHOOSE x \in S : \A y \in S : x <= y

MaxOf(S) == CHOOSE x \in S : \A y \in S : x >= y

\* data_root.get("Currency_sign", "£"): the responses of the model carry the
\* default sign.
currency_sign == "£"

PriceSummary(entries) ==
    LET prices == {EntryPrice(entries[k]) : k \in DOMAIN entries}
    IN Some([min_price |-> MinOf(prices), max_price |-> MaxOf(prices),
             currency |-> currency_sign])

EmptySummary ==
    [all_flights |-> <<>>, cheapest |-> None, fastest |-> None, direct |-> <<>>,
     price_summary |-> None]

\* summarize_skyexperts taking round-trip mode only when every raw offer
\* yields a pair.
summarize_pairs_only_if_all(fs) ==
    IF fs = <<>> THEN EmptySummary
    ELSE LET pairs == BuildPairs(fs)
             outbound_only == BuildOutboundOnly(fs)
         IN IF pairs # <<>> /\ Len(pairs) = Len(fs)
            THEN [all_flights |-> Take(SortedByPrice(pairs), 5),
                  cheapest |-> Some(MinByPrice(pairs)),
                  fastest |-> Some(MinByMinutes(pairs)),
                  direct |-> Take(SelectSeq(pairs, IsDirect), 3),
                  price_summary |-> PriceSummary(pairs)]
            ELSE IF outbound_only = <<>> THEN EmptySummary
            ELSE LET top5 == Take(SortedByPrice(outbound_only), 5)
                 IN [all_flights |-> top5,
                     cheapest |-> Some(MinByPrice(top5)),
                     fastest |-> Some(MinByMinutes(top5)),
                     direct |-> Take(SelectSeq(top5, IsDirect), 3),
                     price_summary |-> PriceSummary(top5)]

summarize_skyexperts(fs) ==
    IF fs = <<>> THEN EmptySummary
    ELSE LET pairs == BuildPairs(fs)
             outbound_only == BuildOutboundOnly(fs)
         IN IF pairs # <<>>
            THEN [all_flights |-> Take(SortedByPrice(pairs), 5),
                  cheapest |-> Some(MinByPrice(pairs)),
                  fastest |-> Some(MinByMinutes(pairs)),
                  direct |-> Take(SelectSeq(pairs, IsDirect), 3),
                  price_summary |-> PriceSummary(pairs)]
            ELSE IF outbound_only = <<>> THEN EmptySummary
            ELSE LET top5 == Take(SortedByPrice(outbound_only), 5)
                 IN [all_flights |-> top5,
                     cheapest |-> Some(MinByPrice(top5)),
                     fastest |-> Some(MinByMinutes(top5)),
                     direct |-> Take(SelectSeq(top5, IsDirect), 3),
                     price_summary |-> PriceSummary(top5)]

InitItineraryIdle ==
    /\ cities = <<>>
    /\ days = None
    /\ preferences = <<>>
    /\ start_date = None
    /\ city_day_counts = <<>>
    /\ idx = 0
    /\ i = 0
    /\ day_counter = 1
    /\ city_attractions = <<>>
    /\ city_hotels = <<>>
    /\ city_restaurants = <<>>
    /\ current_hotel = None
    /\ used_attractions = {}
    /\ itinerary = <<>>
    /\ parsed = None
    /\ picks = <<>>

\* The raw offers of the API response, before the call: lists of up to
\* MaxOffers raw offers of at most two kinds, in any arrangement.
InitFlights ==
    /\ pc = "response"
    /\ \E n \in 0..MaxOffers, a \in RawOffers, b \in RawOffers, S \in SUBSET (1..MaxOffers) :
          /\ S \subseteq 1..n
          /\ flights_data = [k \in 1..n |-> IF k \in S THEN a ELSE b]
    /\ summary = None
    /\ has_return = FALSE
    /\ mindtrip = None
    /\ InitItineraryIdle
    /\ InitDatesIdle
    /\ InitFilterIdle
    /\ InitSessionsIdle

Summarize ==
    /\ pc = "response"
    /\ summary' = Some(summarize_skyexperts(flights_data))
    /\ pc' = "summarized"
    /\ UNCHANGED <<flights_data, has_return, mindtrip>>
    /\ UNCHANGED itinVars
    /\ UNCHANGED dateVars
    /\ UNCHANGED raw_pool
    /\ UNCHANGED sessionVars

SpecFlights == InitFlights /\ [][Summarize]_vars

\* ---------------------------------------------------------------------
\* trip_output (src/flight_utils.py) as called by run_smart_flight_search
\* (src/smart_flight_utils.py)
\* ---------------------------------------------------------------------
MaxSearchOffers == 3

\* The sentence about one pair: price and both durations.
RoundTripSentence(e) ==
    [price |-> e.outbound.price, duration |-> e.outbound.duration,
     return_duration |-> Some(e.return_seg[1].duration)]

\* The sentence about one single offer: price and duration.
OneWaySentence(e) ==
    [price |-> e.outbound.price, duration |-> e.outbound.duration,
     return_duration |-> None]

\* The subscripts of trip_output that raise KeyError: the round-trip
\* templates read x["outbound"] and x["return"], which a single offer lacks;
\* the one-way templates read x['airline_name'], which a pair lacks.
trip_output_raises(summary_dict, hr) ==
    LET shown == Range(summary_dict.cheapest) \cup Range(summary_dict.fastest)
                 \cup Range(summary_dict.direct)
    IN IF hr /\ summary_dict.all_flights # <<>>
       THEN \E e \in shown : e.kind = "single"
       ELSE /\ summary_dict.all_flights # <<>>
            /\ \E e \in shown : e.kind = "pair"

\* trip_output taking its round-trip branch on has_return alone.
trip_output_on_return_flag(summary_dict, hr) ==
    LET all_flights == Take(summary_dict.all_flights, 5)
        cheapest == summary_dict.cheapest
        fastest == summary_dict.fastest
        direct == summary_dict.direct
    IN IF hr
       THEN [combined_recommendation |->
                [template |-> "round_trip",
                 found |-> Len(summary_dict.all_flights),
                 cheapest |-> [k \in DOMAIN cheapest |-> RoundTripSentence(cheapest[k])],
                 fastest |-> [k \in DOMAIN fastest |-> RoundTripSentence(fastest[k])],
                 direct |-> [k \in DOMAIN direct |-> direct[k].outbound.price],
                 advice |-> cheapest # None /\ fastest # None],
             summary |-> summary_dict]
       ELSE IF all_flights = <<>>
       THEN [combined_recommendation |->
                [template |-> "no_flights", found |-> 0, cheapest |-> None,
                 fastest |-> None, direct |-> <<>>, advice |-> FALSE],
             summary |-> summary_dict]
       ELSE [combined_recommendation |->
                [template |-> "one_way",
                 found |-> Len(all_flights),
                 cheapest |-> [k \in DOMAIN cheapest |-> OneWaySentence(cheapest[k])],
                 fastest |-> [k \in DOMAIN fastest |-> OneWaySentence(fastest[k])],
                 direct |-> [k \in DOMAIN Take(direct, 3) |-> direct[k].outbound.price],
                 advice |-> cheapest # None /\ fastest # None],
             summary |-> summary_dict]

\* The returned OrderedDict: the text, as the template used and the values
\* it interpolates, and the fields of the summary (result.update).
trip_output(summary_dict, hr) ==
    LET all_flights == Take(summary_dict.all_flights, 5)
        cheapest == summary_dict.cheapest
        fastest == summary_dict.fastest
        direct == summary_dict.direct
    IN IF hr /\ summary_dict.all_flights # <<>>
       THEN [combined_recommendation |->
                [template |-> "round_trip",
                 found |-> Len(summary_dict.all_flights),
                 cheapest |-> [k \in DOMAIN cheapest |-> RoundTripSentence(cheapest[k])],
                 fastest |-> [k \in DOMAIN fastest |-> RoundTripSentence(fastest[k])],
                 direct |-> [k \in DOMAIN direct |-> direct[k].outbound.price],
                 advice |-> cheapest # None /\ fastest # None],
             summary |-> summary_dict]
       ELSE IF all_flights = <<>>
       THEN [combined_recommendation |->
                [template |-> "no_flights", found |-> 0, cheapest |-> None,
                 fastest |-> None, direct |-> <<>>, advice |-> FALSE],
             summary |-> summary_dict]
       ELSE [combined_recommendation |->
                [template |-> "one_way",
                 found |-> Len(all_flights),
                 cheapest |-> [k \in DOMAIN cheapest |-> OneWaySentence(cheapest[k])],
                 fastest |-> [k \in DOMAIN fastest |-> OneWaySentence(fastest[k])],
                 direct |-> [k \in DOMAIN Take(direct, 3) |-> direct[k].outbound.price],
                 advice |-> cheapest # None /\ fastest # None],
             summary |-> summary_dict]

\* The search request with its API response: a return date given or not, and
\* up to MaxSearchOffers raw offers of at most two kinds.
InitSearch ==
    /\ pc = "response"
    /\ \E n \in 0..MaxSearchOffers, a \in RawOffers, b \in RawOffers,
          S \in SUBSET (1..MaxSearchOffers) :
          /\ S \subseteq 1..n
          /\ flights_data = [k \in 1..n |-> IF k \in S THEN a ELSE b]
    /\ summary = None
    /\ has_return \in BOOLEAN
    /\ mindtrip = None
    /\ InitItineraryIdle
    /\ InitDatesIdle
    /\ InitFilterIdle
    /\ InitSessionsIdle

\* mindtrip = trip_output(summary_dict, has_return=bool(retdate)); an
\* exception ends run_smart_flight_search in its except branch, which
\* returns the error result.
TripOutput ==
    /\ pc = "summarized"
    /\ IF trip_output_raises(summary[1], has_return)
       THEN /\ pc' = "error"
            /\ UNCHANGED mindtrip
       ELSE /\ pc' = "returned"
            /\ mindtrip' = Some(trip_output(summary[1], has_return))
    /\ UNCHANGED <<flights_data, summary, has_return>>
    /\ UNCHANGED itinVars
    /\ UNCHANGED dateVars
    /\ UNCHANGED raw_pool
    /\ UNCHANGED sessionVars

NextSearch == Summarize \/ TripOutput

SpecSearch == InitSearch /\ [][NextSearch]_vars

\* ---------------------------------------------------------------------
\* filter_by_preferences on its own, over pools of more categories
\* ---------------------------------------------------------------------
MaxFilterPool == 4

FilterCategories == {"Museum", "Shopping Mall", "Gold Souq"}

FilterPreferenceLists ==
    {<<>>, <<"Beach">>, <<"Shopping">>, <<"Culture">>, <<"Shopping", "Culture">>,
     <<"Culture", "Shopping">>}

\* The city's shuffled pool: up to MaxFilterPool rows, named by their
\* position.
InitFilter ==
    /\ pc = "pool"
    /\ \E n \in 0..MaxFilterPool, f \in [1..MaxFilterPool -> FilterCategories] :
          raw_pool = [k \in 1..n |-> [Name |-> k, Category |-> f[k]]]
    /\ preferences \in FilterPreferenceLists
    /\ cities = <<>>
    /\ days = None
    /\ start_date = None
    /\ city_day_counts = <<>>
    /\ idx = 0
    /\ i = 0
    /\ day_counter = 1
    /\ city_attractions = <<>>
    /\ city_hotels = <<>>
    /\ city_restaurants = <<>>
    /\ current_hotel = None
    /\ used_attractions = {}
    /\ itinerary = <<>>
    /\ parsed = None
    /\ picks = <<>>
    /\ InitFlightsIdle
    /\ InitDatesIdle
    /\ InitSessionsIdle

\* city_attractions = filter_by_preferences(city_attractions, preferences)
FilterPool ==
    /\ pc = "pool"
    /\ city_attractions' = filter_by_preferences(raw_pool, preferences)
    /\ pc' = "filtered"
    /\ UNCHANGED <<cities, days, preferences, start_date, city_day_counts, idx, i,
                   day_counter, city_hotels, city_restaurants, current_hotel,
                   used_attractions, itinerary, parsed, picks>>
    /\ UNCHANGED flightVars
    /\ UNCHANGED dateVars
    /\ UNCHANGED raw_pool
    /\ UNCHANGED sessionVars

SpecFilter == InitFilter /\ [][FilterPool]_vars

\* ---------------------------------------------------------------------
\* parse_date_string (src/itinerary.py)
\* ---------------------------------------------------------------------
MaxWords == 4

\* The lower-case words a phrase of the model is made of.
Words == {"day", "after", "tomorrow", "monday", "friday", "next", "month", "2"}

\* Phrases: up to MaxWords words separated by single blanks.
Phrases == UNION {[1..n -> Words] : n \in 0..MaxWords}

\* Reference dates, as day ordinals with 1 = 2024-01-01 (a Monday): the last
\* week of January 2024.
BaseDates == 25..31

\* Lengths of the months January to March 2024.
MonthLengths == <<31, 29, 31>>

\* list(calendar.day_name), lower-cased.
weekdays == <<"monday", "tuesday", "wednesday", "thursday", "friday", "saturday", "sunday">>

\* date.weekday(): Monday is 0.
Weekday(date) == (date - 1) % 7

\* The month of the date that is the date-th day counted from the first day
\* of month m.
RECURSIVE MonthOf(_, _)
MonthOf(date, m) ==
    IF date <= MonthLengths[m] THEN m ELSE MonthOf(date - MonthLengths[m], m + 1)

RECURSIVE DaysBefore(_)
DaysBefore(m) == IF m = 1 THEN 0 ELSE DaysBefore(m - 1) + MonthLengths[m - 1]

\* today + relativedelta(months=1): same day of the next month, clipped to
\* the length of that month.
AddMonth(date) ==
    LET m == MonthOf(date, 1)
        day == date - DaysBefore(m)
        clipped == IF day > MonthLengths[m + 1] THEN MonthLengths[m + 1] ELSE day
    IN DaysBefore(m + 1) + clipped

\* The words of the model that end in "day", and so contain it as a suffix.
EndsWithDay(word) == word \in {"day", "monday", "friday"}

\* "day after tomorrow" in natural_date_lower: a substring test, so the first
\* word only has to end in "day".
ContainsDayAfterTomorrow(phrase) ==
    \E k \in 1..(Len(phrase) - 2) :
       EndsWithDay(phrase[k]) /\ phrase[k + 1] = "after" /\ phrase[k + 2] = "tomorrow"

\* "tomorrow" in natural_date_lower.
ContainsTomorrow(phrase) == "tomorrow" \in Range(phrase)

\* The 0-based indices of the weekday names that occur in the phrase.
NamedWeekdays(phrase) == {k \in 0..6 : weekdays[k + 1] \in Range(phrase)}

IsDigits(word) == word = "2"

IntOf(word) == IF word = "2" THEN 2 ELSE 0

\* re.search(r'after (\d+) days?', ...): the positions of "after" followed by
\* a number and a word starting with "day".
AfterDaysMatches(phrase) ==
    {k \in 1..(Len(phrase) - 2) :
        phrase[k] = "after" /\ IsDigits(phrase[k + 1]) /\ phrase[k + 2] = "day"}

\* The weekday rule without the push of a same-day match to the next week.
days_ahead_same_day(weekday_num, today) == (weekday_num - Weekday(today) + 7) % 7

\* days_ahead of the weekday rule (lines 142-144).
days_ahead(weekday_num, today) ==
    LET ahead == (weekday_num - Weekday(today) + 7) % 7
    IN IF ahead = 0 THEN 7 ELSE ahead

\* What the two library parsers can answer for a phrase: parsedatetime gives
\* parse_status 0 (None here) or a date, dateutil raises (None here) or gives
\* a date.
CalendarOutcomes(today) == {None, Some(today + 3)}

FuzzyOutcomes(today) == {None, Some(today)}

\* parse_date_string with "after N days" tried before the weekday names.
parse_date_string_days_first(phrase, today, cal, fuzzy) ==
    LET named == NamedWeekdays(phrase)
        first_named == CHOOSE k \in named : \A j \in named : k <= j
        matches == AfterDaysMatches(phrase)
        first_match == CHOOSE k \in matches : \A j \in matches : k <= j
        rule(date) == [date |-> Some(date), fallback |-> "unused"]
    IN IF phrase = <<>> THEN [date |-> None, fallback |-> "unused"]
       ELSE IF ContainsDayAfterTomorrow(phrase) THEN rule(today + 2)
       ELSE IF ContainsTomorrow(phrase) THEN rule(today + 1)
       ELSE IF matches # {} THEN rule(today + IntOf(phrase[first_match + 1]))
       ELSE IF named # {} THEN rule(today + days_ahead(first_named, today))
       ELSE IF phrase = <<"next", "month">> THEN rule(AddMonth(today))
       ELSE IF cal # None THEN [date |-> cal, fallback |-> "calendar"]
       ELSE IF fuzzy # None THEN [date |-> fuzzy, fallback |-> "fuzzy"]
       ELSE [date |-> None, fallback |-> "none"]

\* The returned date (its '%Y-%m-%d' string names the day) and the fallback
\* parser that produced it, given what the two libraries answer.
parse_date_string(phrase, today, cal, fuzzy) ==
    LET named == NamedWeekdays(phrase)
        first_named == CHOOSE k \in named : \A j \in named : k <= j
        matches == AfterDaysMatches(phrase)
        first_match == CHOOSE k \in matches : \A j \in matches : k <= j
        rule(date) == [date |-> Some(date), fallback |-> "unused"]
    IN IF phrase = <<>> THEN [date |-> None, fallback |-> "unused"]
       ELSE IF ContainsDayAfterTomorrow(phrase) THEN rule(today + 2)
       ELSE IF ContainsTomorrow(phrase) THEN rule(today + 1)
       ELSE IF named # {} THEN rule(today + days_ahead(first_named, today))
       ELSE IF phrase = <<"next", "month">> THEN rule(AddMonth(today))
       ELSE IF matches # {} THEN rule(today + IntOf(phrase[first_match + 1]))
       ELSE IF cal # None THEN [date |-> cal, fallback |-> "calendar"]
       ELSE IF fuzzy # None THEN [date |-> fuzzy, fallback |-> "fuzzy"]
       ELSE [date |-> None, fallback |-> "none"]

InitDates ==
    /\ pc = "phrase"
    /\ natural_date \in Phrases
    /\ base_date \in BaseDates
    /\ parsed_date = None
    /\ fallback = "unused"
    /\ InitItineraryIdle
    /\ InitFlightsIdle
    /\ InitFilterIdle
    /\ InitSessionsIdle

ParseDate ==
    /\ pc = "phrase"
    /\ \E cal \in CalendarOutcomes(base_date), fuzzy \in FuzzyOutcomes(base_date) :
          LET result == parse_date_string(natural_date, base_date, cal, fuzzy)
          IN /\ parsed_date' = result.date
             /\ fallback' = result.fallback
    /\ pc' = "date_returned"
    /\ UNCHANGED <<natural_date, base_date>>
    /\ UNCHANGED itinVars
    /\ UNCHANGED flightVars
    /\ UNCHANGED raw_pool
    /\ UNCHANGED sessionVars

SpecDates == InitDates /\ [][ParseDate]_vars

\* ---------------------------------------------------------------------
\* get_session and query_handler (src/app.py)
\* ---------------------------------------------------------------------
MaxRequests == 3

SESSION_TTL == 600

\* Seconds that pass between two requests: none, exactly the time to live,
\* one second more.
TimeSteps == {0, SESSION_TTL, SESSION_TTL + 1}

\* Session ids: those uuid4 generates and those a client sends.
SessionIds == {1, 2}

\* The queries of the model requests.
Queries == {"", "book a flight", "london from dubai to paris", "3 days in dubai"}

\* is_flight (lines 72-75): a flight keyword, or " from " and " to ".
is_flight(query) ==
    LET has_keyword == query = "book a flight"
        has_from_to == query = "london from dubai to paris"
    IN has_keyword \/ has_from_to

\* The departure date of the flight searches of the model: a week after the
\* start date of its itinerary requests.
DepartureDay == StartDay + 7

\* What run_smart_flight_search answers: flight_data.get("depdate") is a date
\* or None (the error and incomplete results carry none).
FlightSearchOutcomes == {None, Some(StartDay), Some(DepartureDay)}

\* What build_itinerary answers for an itinerary query: it raises, or it
\* returns with the start date of the query (None or a date).
BuildOutcomes ==
    {[raised |-> TRUE, start_date |-> None]}
        \cup {[raised |-> FALSE, start_date |-> d] : d \in {None, Some(StartDay)}}

FreshSession(t) ==
    [flight_already_searched |-> FALSE, started_with_flight |-> FALSE,
     last_depdate |-> None, last_parsed |-> None, timestamp |-> t]

\* The expiry test that never expires a session.
ExpiredNever(s, t) == FALSE

\* now - s["timestamp"] > SESSION_TTL
Expired(s, t) == t - s.timestamp > SESSION_TTL

\* get_session: the store and the id it returns; new_id stands for
\* str(uuid.uuid4()).
get_session(store, sid, t, new_id) ==
    LET kept == {k \in DOMAIN store : ~Expired(store[k], t)}
        purged == [k \in kept |-> store[k]]
    IN IF sid # None
       THEN IF sid[1] \in kept
            THEN [sessions |-> [purged EXCEPT ![sid[1]].timestamp = t],
                  session_id |-> sid[1]]
            ELSE [sessions |-> [k \in kept \cup {sid[1]} |->
                                   IF k = sid[1] THEN FreshSession(t) ELSE purged[k]],
                  session_id |-> sid[1]]
       ELSE [sessions |-> [k \in kept \cup {new_id} |->
                              IF k = new_id THEN FreshSession(t) ELSE purged[k]],
             session_id |-> new_id]

\* The branch query_handler takes without the flight-after-itinerary case.
RouteWithoutLookup(state, query) ==
    IF query = "" THEN "empty"
    ELSE IF is_flight(query) THEN "direct_flight"
    ELSE "itinerary"

\* The branch query_handler takes (lines 68, 78, 91, 108).
Route(state, query) ==
    IF query = "" THEN "empty"
    ELSE IF state.last_parsed # None /\ ~is_flight(query) THEN "after_itinerary"
    ELSE IF is_flight(query) THEN "direct_flight"
    ELSE "itinerary"

\* The Date fields of the two-day itinerary build_itinerary returns.
ItineraryDates(start) == [k \in 1..2 |-> DateField(start, k)]

InitSession ==
    /\ pc = "idle"
    /\ InitSessionsIdle
    /\ InitItineraryIdle
    /\ InitFlightsIdle
    /\ InitDatesIdle
    /\ raw_pool = <<>>

\* A request arrives and query_handler calls get_session (line 66).
GetSession ==
    /\ pc = "idle"
    /\ requests_made < MaxRequests
    /\ \E step \in TimeSteps, sid \in {None} \cup {Some(k) : k \in SessionIds},
          query \in Queries :
          LET t == now + step
              unused == SessionIds \ DOMAIN sessions
              new_id == IF unused # {} THEN CHOOSE k \in unused : \A j \in unused : k <= j
                        ELSE 0
              result == get_session(sessions, sid, t, new_id)
          IN /\ sid = None => unused # {}
             /\ now' = t
             /\ request' = [session_id |-> sid, query |-> query]
             /\ before' = sessions
             /\ sessions' = result.sessions
             /\ session_id' = Some(result.session_id)
    /\ requests_made' = requests_made + 1
    /\ pc' = "handling"
    /\ UNCHANGED response
    /\ UNCHANGED itinVars
    /\ UNCHANGED flightVars
    /\ UNCHANGED dateVars
    /\ UNCHANGED raw_pool

\* The rest of query_handler (lines 68-125); state is sessions[session_id].
\* build_itinerary may raise before the session is written, make_human_like
\* after it.
HandleQuery ==
    /\ pc = "handling"
    /\ LET id == session_id[1]
           state == sessions[id]
           route == Route(state, request.query)
       IN CASE route = "empty" ->
                 /\ response' = [route |-> route, session_id |-> session_id,
                                 itinerary |-> <<>>]
                 /\ UNCHANGED sessions
            [] route = "after_itinerary" ->
                 /\ response' = [route |-> route, session_id |-> session_id,
                                 itinerary |-> <<>>]
                 /\ UNCHANGED sessions
            [] route = "direct_flight" ->
                 \E depdate \in FlightSearchOutcomes :
                    /\ sessions' = [sessions EXCEPT
                                       ![id].flight_already_searched = TRUE,
                                       ![id].started_with_flight = TRUE,
                                       ![id].last_depdate = depdate]
                    /\ response' = [route |-> route, session_id |-> session_id,
                                    itinerary |-> <<>>]
            [] route = "itinerary" ->
                 \E built \in BuildOutcomes, narrated \in BOOLEAN :
                    IF built.raised
                    THEN /\ response' = [route |-> "failed", session_id |-> None,
                                         itinerary |-> <<>>]
                         /\ UNCHANGED sessions
                    ELSE /\ sessions' = [sessions EXCEPT ![id].last_parsed =
                                            Some([start_date |->
                                                    IF state.last_depdate # None
                                                    THEN state.last_depdate
                                                    ELSE built.start_date])]
                         /\ response' =
                               IF narrated
                               THEN [route |-> route, session_id |-> session_id,
                                     itinerary |-> ItineraryDates(built.start_date)]
                               ELSE [route |-> "failed", session_id |-> None,
                                     itinerary |-> <<>>]
    /\ session_id' = None
    /\ pc' = "idle"
    /\ UNCHANGED <<now, request, before, requests_made>>
    /\ UNCHANGED itinVars
    /\ UNCHANGED flightVars
    /\ UNCHANGED dateVars
    /\ UNCHANGED raw_pool

NextSession == GetSession \/ HandleQuery

SpecSession == InitSession /\ [][NextSession]_vars

\* =====================================================================
\* Properties
\* =====================================================================
SplitReturned == pc = "city" /\ days # None

\* C1: for n distinct cities and total_days >= 1 the DaySplit has exactly one
\* entry per requested city and its values sum to total_days.
C1_SplitSumsToTotal ==
    (SplitReturned /\ days[1] >= 1) =>
        /\ DOMAIN city_day_counts = Range(cities)
        /\ SumOver(city_day_counts, DOMAIN city_day_counts) = days[1]

\* The minimum m and the remainder r of the split of the current request.
SplitMin == IF days[1] >= 2 * Len(cities) THEN 2 ELSE 1

SplitRemainder == days[1] - SplitMin * Len(cities)

\* C2: with m = 2 if total_days >= 2n else 1 and r = total_days - m*n >= 0,
\* the city at 0-based position k receives m + r div n + (1 if k < r mod n),
\* so every city gets at least m days and the counts never increase along
\* the city order and differ by at most 1.
C2_RoundRobinFromFirstCity ==
    (SplitReturned /\ SplitRemainder >= 0) =>
        LET n == Len(cities)
            count(k) == city_day_counts[cities[k + 1]]
        IN /\ \A k \in 0..(n - 1) :
                 /\ count(k) = SplitMin + (SplitRemainder \div n)
                               + (IF k < SplitRemainder % n THEN 1 ELSE 0)
                 /\ count(k) >= SplitMin
           /\ \A k \in 0..(n - 2) : count(k) >= count(k + 1)
           /\ \A j, k \in 0..(n - 1) : count(j) - count(k) <= 1

\* Two cities and 6 days give 3 and 3.
C2_Witness ==
    /\ SplitReturned
    /\ Len(cities) = 2
    /\ days = Some(6)
    /\ city_day_counts[cities[1]] = 3
    /\ city_day_counts[cities[2]] = 3

\* C3: a request whose day count is zero or negative is rejected: no DaySplit
\* and no day record is produced for it.
C3_NonPositiveDaysRejected ==
    (days # None /\ days[1] <= 0) =>
        /\ city_day_counts = <<>>
        /\ itinerary = <<>>
        /\ pc \in {"parsed", "raised"}

\* C4: build_itinerary never raises because an attraction, hotel or restaurant
\* pool is empty or runs out (the only other raise of the model is the
\* missing day count).
C4_NeverRaisesOnMissingCatalog ==
    (days # None /\ days[1] >= 1) => pc # "raised"

\* The names a day of the history picked, slot by slot.
PickOf(day, slot) ==
    CASE slot = 1 -> picks[day].Morning
      [] slot = 2 -> picks[day].Afternoon
      [] slot = 3 -> picks[day].Evening

PickPositions == (DOMAIN picks) \X {1, 2, 3}

Earlier(p, q) == p[1] < q[1] \/ (p[1] = q[1] /\ p[2] < q[2])

PoolNames == {city_attractions[k].Name : k \in DOMAIN city_attractions}

PickedNames ==
    {PickOf(p[1], p[2])[1].Name : p \in {q \in PickPositions : PickOf(q[1], q[2]) # None}}

\* C5: within one city the names picked for all slots are pairwise distinct,
\* a slot is left without an attraction only when every name of the city's
\* pool was picked before, and the used set holds exactly the names picked in
\* the city (so it starts empty for each new city).
C5_NoAttractionTwicePerCity ==
    /\ \A p, q \in PickPositions :
          (p # q /\ PickOf(p[1], p[2]) # None /\ PickOf(q[1], q[2]) # None)
             => PickOf(p[1], p[2])[1].Name # PickOf(q[1], q[2])[1].Name
    /\ \A p \in PickPositions :
          PickOf(p[1], p[2]) = None =>
             \A name \in PoolNames :
                \E q \in PickPositions :
                   /\ Earlier(q, p)
                   /\ PickOf(q[1], q[2]) # None
                   /\ PickOf(q[1], q[2])[1].Name = name
    /\ used_attractions = PickedNames
    /\ (pc = "day" /\ i = 0) => used_attractions = {}

\* The second city of a trip ran out of attractions after two picks.
C5_Witness ==
    /\ pc = "return"
    /\ Len(cities) = 2
    /\ Len(picks) = 1
    /\ picks[1].Morning # None
    /\ picks[1].Afternoon # None
    /\ picks[1].Evening = None
    /\ Cardinality(used_attractions) = 2

\* The itinerary is complete: every city was filled.
ItineraryBuilt == pc \in {"return", "done"}

\* The number of the first day of the city at 1-based position c.
BlockStart(c) == 1 + SumOver(city_day_counts, {cities[j] : j \in 1..(c - 1)})

\* C15: the day records are numbered by one global counter: at any moment
\* they are Day 1 .. Day (day_counter - 1), the Date of Day k is the start
\* date + (k - 1) days when a start date is known and the label "Day k"
\* otherwise; the built itinerary has as many records as the DaySplit sums
\* to, and the cities occupy contiguous blocks in request order, each as
\* long as its DaySplit entry (a block opens with the check-in morning for
\* the first city and with the travel morning naming the city for the
\* others).
C15_GlobalDayCounter ==
    /\ DOMAIN itinerary = 1..(day_counter - 1)
    /\ \A k \in DOMAIN itinerary :
          itinerary[k].Date = IF start_date # None
                              THEN [kind |-> "date", value |-> start_date[1] + (k - 1)]
                              ELSE [kind |-> "label", value |-> k]
    /\ ItineraryBuilt =>
          /\ day_counter - 1 = SumOver(city_day_counts, DOMAIN city_day_counts)
          /\ \A c \in DOMAIN cities :
                \A k \in BlockStart(c)..(BlockStart(c) + city_day_counts[cities[c]] - 1) :
                   /\ k \in DOMAIN itinerary
                   /\ itinerary[k].Morning.kind =
                         IF k > BlockStart(c) THEN "visit"
                         ELSE IF c = 1 THEN "checkin_visit" ELSE "travel"
                   /\ itinerary[k].Morning.city =
                         IF k = BlockStart(c) /\ c > 1 THEN Some(cities[c]) ELSE None

\* A dated trip of two days in the first city and two in the second.
C15_Witness ==
    /\ pc = "done"
    /\ Len(cities) = 2
    /\ start_date # None
    /\ DOMAIN itinerary = 1..4
    /\ itinerary[3].Morning = [kind |-> "travel", city |-> Some(cities[2]), shows |-> None]
    /\ itinerary[4].Date = [kind |-> "date", value |-> start_date[1] + 3]

\* C16: in every city the Hotel field of the first local day names the
\* hotel at index 0 of the city's pool, which becomes the current hotel, or
\* is "No hotels available" for an empty pool; on every later local day the
\* current hotel is unchanged and the field is "Same hotel as previous day"
\* if and only if there is a current hotel, else "No hotels available"; a
\* city starts without current hotel.
C16_HotelChosenOncePerCity ==
    /\ (pc = "day" /\ i = 0) => current_hotel = None
    /\ (pc \in {"day", "city", "return", "done"} /\ picks # <<>>) =>
          LET first == day_counter - Len(picks)
          IN /\ current_hotel = IF city_hotels = <<>> THEN None ELSE Some(city_hotels[1])
             /\ itinerary[first].Hotel =
                   IF city_hotels = <<>>
                   THEN [kind |-> "No hotels available", hotel |-> None]
                   ELSE [kind |-> "named", hotel |-> Some(city_hotels[1])]
             /\ \A k \in (first + 1)..(day_counter - 1) :
                   itinerary[k].Hotel =
                      IF current_hotel # None
                      THEN [kind |-> "Same hotel as previous day", hotel |-> None]
                      ELSE [kind |-> "No hotels available", hotel |-> None]

\* The first city had a hotel, the second has none: its second day reports
\* "No hotels available".
C16_Witness ==
    /\ pc = "done"
    /\ Len(cities) = 2
    /\ DOMAIN itinerary = 1..4
    /\ itinerary[1].Hotel.kind = "named"
    /\ itinerary[2].Hotel.kind = "Same hotel as previous day"
    /\ itinerary[3].Hotel.kind = "No hotels available"
    /\ itinerary[4].Hotel.kind = "No hotels available"

\* ---------------------------------------------------------------------
\* Properties of summarize_skyexperts
\* ---------------------------------------------------------------------
Summarized == pc = "summarized"

\* Every entry the summary reports.
SummaryEntries ==
    Range(summary[1].all_flights) \cup Range(summary[1].direct)
    \cup Range(summary[1].cheapest) \cup Range(summary[1].fastest)

RoundTripMode == SummaryEntries # {} /\ \A e \in SummaryEntries : e.kind = "pair"

OneWayEntriesOnly == \A e \in SummaryEntries : e.kind = "single"

HasLegs(f, g) ==
    Len(f.OutboundInboundlist) >= g /\ f.OutboundInboundlist[g].flightlist # <<>>

WellFormedGroup(f, g) ==
    \A k \in DOMAIN f.OutboundInboundlist[g].flightlist :
       f.OutboundInboundlist[g].flightlist[k].Arrival # None

\* C6 as stated: round-trip mode if and only if some raw offer has at least
\* two leg-groups with a non-empty leg list in both the outbound and the
\* return group; otherwise every entry is a single outbound offer.
C6_RoundTripIffTwoNonEmptyGroups ==
    Summarized =>
        IF \E k \in DOMAIN flights_data : HasLegs(flights_data[k], 1) /\ HasLegs(flights_data[k], 2)
        THEN RoundTripMode
        ELSE OneWayEntriesOnly

\* C6 as amended: round-trip mode if and only if some raw offer has at least
\* two leg-groups whose outbound and return groups both have a non-empty leg
\* list and both normalize without error; otherwise every entry is a single
\* outbound offer.
C6_RoundTripIffSomeOfferYieldsPair ==
    Summarized =>
        IF \E k \in DOMAIN flights_data :
              /\ HasLegs(flights_data[k], 1) /\ WellFormedGroup(flights_data[k], 1)
              /\ HasLegs(flights_data[k], 2) /\ WellFormedGroup(flights_data[k], 2)
        THEN RoundTripMode
        ELSE OneWayEntriesOnly

\* Round-trip mode over a response that also holds a one-way offer with legs.
C6_Witness ==
    /\ Summarized
    /\ RoundTripMode
    /\ \E k \in DOMAIN flights_data :
          HasLegs(flights_data[k], 1) /\ Len(flights_data[k].OutboundInboundlist) = 1

\* The normalized offers/pairs of the input, in input order, in the mode of
\* the summary.
Normalized ==
    IF BuildPairs(flights_data) # <<>> THEN BuildPairs(flights_data)
    ELSE BuildOutboundOnly(flights_data)

\* C7: in both modes the reported cheapest has the minimum outbound price
\* over all normalized offers/pairs of the input and is, among those of that
\* price, the first in input order.
C7_CheapestIsFirstMinimum ==
    Summarized =>
        LET all == Normalized
        IN all # <<>> =>
              /\ summary[1].cheapest # None
              /\ \A k \in DOMAIN all :
                    summary[1].cheapest[1].outbound.price <= all[k].outbound.price
              /\ \E k \in DOMAIN all :
                    /\ summary[1].cheapest[1] = all[k]
                    /\ \A j \in 1..(k - 1) :
                          all[j].outbound.price > all[k].outbound.price

\* Two different offers tie at the minimum price and the first one is reported.
C7_Witness ==
    /\ Summarized
    /\ \E j, k \in DOMAIN Normalized :
          /\ j < k
          /\ Normalized[j] # Normalized[k]
          /\ Normalized[j].outbound.price = Normalized[k].outbound.price
          /\ \A m \in DOMAIN Normalized :
                Normalized[j].outbound.price <= Normalized[m].outbound.price
          /\ \A m \in 1..(j - 1) :
                Normalized[m].outbound.price > Normalized[j].outbound.price
          /\ summary[1].cheapest = Some(Normalized[j])

\* C8: in both modes the reported fastest has the minimum duration in minutes
\* (outbound + return for a pair, outbound alone in one-way mode) over all
\* normalized offers/pairs of the input, for inputs of any size.
C8_FastestIsMinimumOverAll ==
    Summarized =>
        LET all == Normalized
        IN all # <<>> =>
              /\ summary[1].fastest # None
              /\ \A k \in DOMAIN all :
                    EntryMinutes(summary[1].fastest[1]) <= EntryMinutes(all[k])

\* The raw offers an entry can come from: same price and durations, one leg
\* in every leg-group the entry represents.
SingleLegSource(e, f) ==
    /\ PriceToCents(f.total_price) = e.outbound.price
    /\ HasLegs(f, 1)
    /\ Len(f.OutboundInboundlist[1].flightlist) = 1
    /\ DurationStr(f.OutboundInboundlist[1].totaltime) = e.outbound.duration
    /\ e.kind = "pair" =>
          /\ HasLegs(f, 2)
          /\ Len(f.OutboundInboundlist[2].flightlist) = 1
          /\ DurationStr(f.OutboundInboundlist[2].totaltime) = e.return_seg[1].duration

\* C9: the direct list has at most 3 entries and every entry has stop count 0
\* in every leg-group it represents, the stop count being the number of legs
\* minus 1 whatever the airport codes (a bus-transfer stop is a stop).
C9_DirectListZeroStopsAtMostThree ==
    Summarized =>
        /\ Len(summary[1].direct) <= 3
        /\ \A k \in DOMAIN summary[1].direct :
              LET e == summary[1].direct[k]
              IN /\ e.outbound.stops = 0
                 /\ e.outbound.stops_detail = <<>>
                 /\ e.kind = "pair" =>
                       (e.return_seg[1].stops = 0 /\ e.return_seg[1].stops_detail = <<>>)
                 /\ \E j \in DOMAIN flights_data : SingleLegSource(e, flights_data[j])

\* Three direct entries out of more than three single-leg offers, next to an
\* offer whose only stop is a bus transfer.
C9_Witness ==
    /\ Summarized
    /\ Len(summary[1].direct) = 3
    /\ Cardinality({k \in DOMAIN flights_data :
                      /\ HasLegs(flights_data[k], 1)
                      /\ Len(flights_data[k].OutboundInboundlist[1].flightlist) = 1}) > 3
    /\ \E k \in DOMAIN flights_data :
          /\ HasLegs(flights_data[k], 1)
          /\ Len(flights_data[k].OutboundInboundlist[1].flightlist) = 2
          /\ flights_data[k].OutboundInboundlist[1].flightlist[1].Arrival = Some("XNB")

\* The list with the offers at positions k and k + 1 exchanged.
SwapAt(fs, k) ==
    [j \in DOMAIN fs |-> IF j = k THEN fs[k + 1] ELSE IF j = k + 1 THEN fs[k] ELSE fs[j]]

ReportedPrice(r) == IF r.cheapest = None THEN None ELSE Some(r.cheapest[1].outbound.price)

ReportedMinutes(r) == IF r.fastest = None THEN None ELSE Some(EntryMinutes(r.fastest[1]))

\* C10: reordering the raw offers never changes the reported cheapest price
\* or the reported fastest duration (stated for the exchange of two
\* neighbours, of which every permutation is composed).
C10_ReportInvariantUnderReordering ==
    Summarized =>
        \A k \in 1..(Len(flights_data) - 1) :
           LET other == summarize_skyexperts(SwapAt(flights_data, k))
           IN /\ ReportedPrice(other) = ReportedPrice(summary[1])
              /\ ReportedMinutes(other) = ReportedMinutes(summary[1])

\* C11: in both modes min_price and max_price of price_summary are the
\* minimum and the maximum outbound price over the entries of all_flights,
\* and the currency is the currency sign of the input.
C11_PriceRangeOverTopSet ==
    (Summarized /\ summary[1].all_flights # <<>>) =>
        LET top == summary[1].all_flights
            prices == {top[k].outbound.price : k \in DOMAIN top}
        IN /\ summary[1].price_summary # None
           /\ summary[1].price_summary[1].min_price = MinOf(prices)
           /\ summary[1].price_summary[1].max_price = MaxOf(prices)
           /\ summary[1].price_summary[1].currency = currency_sign

\* ---------------------------------------------------------------------
\* Properties of the flight search
\* ---------------------------------------------------------------------
AfterSummarize == pc \in {"summarized", "returned", "error"}

NoOutboundOffer == BuildOutboundOnly(flights_data) = <<>>

\* C12: when the response has no offer records, or no offer yields a
\* normalized outbound offer, the summary is the empty summary and
\* trip_output renders the "No flights found" text for either value of
\* has_return, without an exception.
C12_EmptySummaryRendersNoFlights ==
    (AfterSummarize /\ NoOutboundOffer) =>
        /\ summary = Some(EmptySummary)
        /\ pc # "error"
        /\ pc = "returned" =>
              /\ mindtrip # None
              /\ mindtrip[1].combined_recommendation.template = "no_flights"
              /\ mindtrip[1].summary = EmptySummary

\* A search with a return date whose offers all have an empty outbound
\* leg list ends in the "No flights found" text.
C12_Witness ==
    /\ pc = "returned"
    /\ has_return
    /\ flights_data # <<>>
    /\ NoOutboundOffer
    /\ mindtrip[1].combined_recommendation.template = "no_flights"

\* d is a subsequence of a: its entries occur in a in the same order.
RECURSIVE IsSubsequence(_, _)
IsSubsequence(d, a) ==
    IF d = <<>> THEN TRUE
    ELSE IF a = <<>> THEN FALSE
    ELSE IF Head(d) = Head(a) THEN IsSubsequence(Tail(d), Tail(a))
    ELSE IsSubsequence(d, Tail(a))

\* C18: in both modes every entry of the direct list is an entry of
\* all_flights, and the direct entries appear in the order they have there.
C18_DirectDrawnFromTopFive ==
    Summarized => IsSubsequence(summary[1].direct, summary[1].all_flights)

\* C19: all_flights holds min(5, number of normalized offers/pairs) entries
\* in non-decreasing outbound price, equal prices in input order, none left
\* out that is strictly cheaper than one included; in round-trip mode the
\* full ranked pair list can be read from the summary as well.
C19_TopFiveAndFullRankedList ==
    Summarized =>
        LET all == Normalized
            top == summary[1].all_flights
        IN /\ Len(top) = (IF Len(all) < 5 THEN Len(all) ELSE 5)
           /\ \A k \in 1..(Len(top) - 1) : top[k].outbound.price <= top[k + 1].outbound.price
           /\ top = Take(SortedByPrice(all), 5)
           /\ BuildPairs(flights_data) # <<>> =>
                 SortedByPrice(BuildPairs(flights_data))
                    \in {summary[1].all_flights, summary[1].direct}

\* C20: the search never ends in the error result, trip_output uses its
\* round-trip template only on a summary built in round-trip mode and its
\* one-way template only on a summary of single outbound offers.
C20_NarrativeModeAgreesWithSummary ==
    /\ pc # "error"
    /\ pc = "returned" =>
          LET template == mindtrip[1].combined_recommendation.template
          IN /\ template = "round_trip" => RoundTripMode
             /\ template = "one_way" => OneWayEntriesOnly
             /\ (has_return /\ RoundTripMode) => template = "round_trip"
             /\ (~has_return /\ summary[1].all_flights # <<>>) => template = "one_way"

\* ---------------------------------------------------------------------
\* Properties of parse_date_string
\* ---------------------------------------------------------------------
DateReturned == pc = "date_returned"

\* C13: for a phrase that names a weekday and does not contain "tomorrow"
\* (nor, then, "day after tomorrow") the result falls on a named weekday and
\* lies 1 to 7 days after the reference date; when the reference date falls
\* on the one weekday the phrase names, the result is exactly 7 days later.
C13_WeekdayStrictlyAfterReference ==
    (DateReturned /\ NamedWeekdays(natural_date) # {} /\ ~ContainsTomorrow(natural_date)) =>
        /\ parsed_date # None
        /\ Weekday(parsed_date[1]) \in NamedWeekdays(natural_date)
        /\ parsed_date[1] - base_date \in 1..7
        /\ NamedWeekdays(natural_date) = {Weekday(base_date)} =>
              parsed_date[1] = base_date + 7

\* "monday" on a Monday gives the Monday of the next week.
C13_Witness ==
    /\ DateReturned
    /\ natural_date = <<"monday">>
    /\ Weekday(base_date) = 0
    /\ parsed_date = Some(base_date + 7)

\* C14: the first matching rule alone decides, in the order day after
\* tomorrow, tomorrow, weekday, next month, after N days, calendar parser,
\* fuzzy parser; a phrase matched by no rule and by neither parser gives no
\* date.
C14_FirstMatchingRuleDecides ==
    DateReturned =>
        LET phrase == natural_date
            named == NamedWeekdays(phrase)
            matches == AfterDaysMatches(phrase)
            by_rule(date) == parsed_date = Some(date) /\ fallback = "unused"
        IN IF ContainsDayAfterTomorrow(phrase) THEN by_rule(base_date + 2)
           ELSE IF ContainsTomorrow(phrase) THEN by_rule(base_date + 1)
           ELSE IF named # {}
                THEN /\ fallback = "unused"
                     /\ parsed_date # None
                     /\ Weekday(parsed_date[1]) \in named
                     /\ parsed_date[1] - base_date \in 1..7
           ELSE IF phrase = <<"next", "month">> THEN by_rule(AddMonth(base_date))
           ELSE IF matches # {}
                THEN \E k \in matches : by_rule(base_date + IntOf(phrase[k + 1]))
           ELSE IF phrase = <<>> THEN parsed_date = None /\ fallback = "unused"
           ELSE \/ fallback = "calendar" /\ parsed_date \in CalendarOutcomes(base_date) \ {None}
                \/ fallback = "fuzzy" /\ parsed_date \in FuzzyOutcomes(base_date) \ {None}
                \/ fallback = "none" /\ parsed_date = None

\* A phrase that names a weekday and matches "after N days": the weekday
\* decides, and the result differs from the reference date + N.
C14_Witness ==
    /\ DateReturned
    /\ natural_date = <<"monday", "after", "2", "day">>
    /\ parsed_date # None
    /\ Weekday(parsed_date[1]) = 0
    /\ parsed_date[1] # base_date + 2

\* ---------------------------------------------------------------------
\* Properties of filter_by_preferences
\* ---------------------------------------------------------------------
\* The row's category matches a mapped category of some preference.
MatchesPreference(row) ==
    \E p \in DOMAIN preferences :
       \E c \in DOMAIN preference_map_get(preferences[p]) :
          preference_map_get(preferences[p])[c] \in KeywordsIn(row.Category)

\* C17: the result is a reordering of the pool, nothing lost or duplicated,
\* with every matching attraction before every non-matching one, the
\* matching ones in the relative order of the pool (names are pool
\* positions) and the non-matching ones too; with no match or no preference
\* the pool is returned unchanged.
C17_MatchesFirstInPoolOrder ==
    pc = "filtered" =>
        LET result == city_attractions
        IN /\ Len(result) = Len(raw_pool)
           /\ Range(result) = Range(raw_pool)
           /\ \A j, k \in DOMAIN result :
                 j < k =>
                    /\ MatchesPreference(result[k]) => MatchesPreference(result[j])
                    /\ MatchesPreference(result[j]) = MatchesPreference(result[k])
                          => result[j].Name < result[k].Name
           /\ (\A k \in DOMAIN raw_pool : ~MatchesPreference(raw_pool[k])) => result = raw_pool

\* ---------------------------------------------------------------------
\* Properties of the slots of build_itinerary
\* ---------------------------------------------------------------------
\* The day records written so far for the city of the used set.
CityRecords == (day_counter - Len(picks))..(day_counter - 1)

\* The slots of those records whose text shows the attraction called name.
SlotsShowing(name) ==
    {p \in CityRecords \X {"Morning", "Afternoon", "Evening"} :
        LET record == itinerary[p[1]]
            text == CASE p[2] = "Morning" -> record.Morning
                      [] p[2] = "Afternoon" -> record.Afternoon
                      [] p[2] = "Evening" -> record.Evening
        IN text.shows = Some(name)}

\* C24: every attraction in a city's used set is shown in the text of
\* exactly one slot of one of that city's day records, also on the travel
\* day that opens a city that is not the first of the trip.
C24_EveryUsedAttractionShown ==
    pc \in {"day", "city", "return", "done"} =>
        \A name \in used_attractions : Cardinality(SlotsShowing(name)) = 1

\* ---------------------------------------------------------------------
\* Properties of get_session and query_handler
\* ---------------------------------------------------------------------
\* get_session has returned and query_handler has not gone on yet.
SessionReturned == pc = "handling"

\* The client sent the id of a session that was in the store at the call.
ClientSentStored == request.session_id # None /\ request.session_id[1] \in DOMAIN before

\* C21: on return from every get_session call no session in the store is
\* older than SESSION_TTL, the returned id is in the store with the current
\* time as timestamp, a client-supplied id whose session had expired is
\* bound to a fresh session with all flags at their defaults, and a
\* non-expired session keeps all its fields except the timestamp (the
\* sessions the call does not return keep the timestamp too).
C21_ExpiredNeverServedAgain ==
    SessionReturned =>
        LET id == session_id[1]
        IN /\ \A k \in DOMAIN sessions : now - sessions[k].timestamp <= SESSION_TTL
           /\ id \in DOMAIN sessions
           /\ sessions[id].timestamp = now
           /\ request.session_id # None => id = request.session_id[1]
           /\ (ClientSentStored /\ now - before[id].timestamp > SESSION_TTL)
                 => sessions[id] = FreshSession(now)
           /\ (ClientSentStored /\ now - before[id].timestamp <= SESSION_TTL)
                 => sessions[id] = [before[id] EXCEPT !.timestamp = now]
           /\ \A k \in DOMAIN before :
                 (k # id /\ now - before[k].timestamp <= SESSION_TTL)
                    => k \in DOMAIN sessions /\ sessions[k] = before[k]

\* The client sent the id of a session that held an itinerary and a flight
\* search and had expired one second before the call.
C21_Witness ==
    /\ SessionReturned
    /\ ClientSentStored
    /\ now - before[request.session_id[1]].timestamp = SESSION_TTL + 1
    /\ before[request.session_id[1]].last_parsed # None
    /\ before[request.session_id[1]].flight_already_searched
    /\ sessions[session_id[1]] = FreshSession(now)

\* The session k of this state lives on in the next state: it is in the
\* store in both and the call that leads there does not purge it.
Continues(k) ==
    /\ k \in DOMAIN sessions
    /\ k \in DOMAIN sessions'
    /\ ~(now' - sessions[k].timestamp > SESSION_TTL)

\* The step handles a non-empty query for session k.
HandlesQueryFor(k) ==
    /\ pc = "handling"
    /\ pc' = "idle"
    /\ session_id = Some(k)
    /\ request.query # ""

\* C22: within one session lifetime last_parsed, once set, never changes and
\* every later non-empty query is routed to the direct flight search or to
\* the flight-after-itinerary lookup, never to a second itinerary; and
\* flight_already_searched, once true, stays true.
C22_LastParsedWrittenOnce ==
    [][\A k \in SessionIds :
          Continues(k) =>
             /\ sessions[k].last_parsed # None =>
                   /\ sessions'[k].last_parsed = sessions[k].last_parsed
                   /\ HandlesQueryFor(k) =>
                         /\ response'.route \in {"direct_flight", "after_itinerary"}
                         /\ response'.route = "direct_flight" <=> is_flight(request.query)
             /\ sessions[k].flight_already_searched
                   => sessions'[k].flight_already_searched]_vars

\* A query that is no flight query was answered by the lookup for a session
\* that holds an itinerary and has run a flight search.
C22_Witness ==
    /\ pc = "idle"
    /\ response.route = "after_itinerary"
    /\ response.session_id # None
    /\ response.session_id[1] \in DOMAIN sessions
    /\ sessions[response.session_id[1]].last_parsed # None
    /\ sessions[response.session_id[1]].flight_already_searched
    /\ ~is_flight(request.query)

\* C23: after an itinerary query has been handled, the start_date stored in
\* the session's last_parsed is the date from which the Date fields of the
\* returned itinerary were computed: Day k is dated start_date + (k - 1), or
\* labelled "Day k" when start_date is None, also when an earlier direct
\* flight search stored a last_depdate.
C23_StoredStartDateDatesItinerary ==
    (pc = "idle" /\ response.route = "itinerary") =>
        LET stored == sessions[response.session_id[1]].last_parsed[1].start_date
        IN \A k \in DOMAIN response.itinerary :
              response.itinerary[k] = DateField(stored, k)

====
